---- MODULE Spec2Model ----
(***************************************************************************)
(* excalidrauri: the canvas document lifecycle (ExcalidrawCanvas), the     *)
(* file-tree state of App and the tree operations of Sidebar, as state     *)
(* machines over the storage capability calls they issue.                  *)
(*                                                                         *)
(* JavaScript values are modelled as follows.                              *)
(*   - a string is the sequence of its characters; "" is << >>;            *)
(*   - a nullable path (string | null) is a string, null being << >>:      *)
(*     the code tests such refs by truthiness, where null and "" agree;    *)
(*   - any other nullable value is << >> (null) or << v >>;                *)
(*   - a timer handle is a positive number, null being 0 (both falsy).     *)
(***************************************************************************)
EXTENDS Integers, Sequences, FiniteSets, TLC

VARIABLES
    selectedFile,    \* App state / ExcalidrawCanvas prop: << >> or << FileItem >>
    initialData,     \* canvas state: << >> or << document >>
    isLoading,       \* canvas state
    loadError,       \* canvas state: << >> or << message >>
    isSaving,        \* canvas state
    canRender,       \* canvas state
    saveTimerRef,    \* canvas ref: handle of the last timer armed, 0 when null
    currentFileRef,  \* canvas ref: the live path, << >> when null
    lastDataRef,     \* canvas ref: << >> or << snapshot of the last change event >>
    timers,          \* pending setTimeout callbacks of handleChange
    loads,           \* loadFile invocations suspended at an await
    saves,           \* timer callbacks suspended at await saveCanvas
    calls,           \* every readCanvas / saveCanvas call issued, in order
    rejected,        \* the calls (indices of calls) whose promise rejected
    accepted,        \* the readCanvas calls whose outcome loadFile applied to the state
    changes,         \* every change event recorded by handleChange, in order: its
                     \* path, and the calls that had rejected when it arrived
    ignoredChanges,  \* number of change events handleChange returned from at its guard
    selections,      \* the path (or << >>) of every selection change the canvas has seen, in order
    fileTree,        \* App state: the forest of the last successful listing
    isLoadingTree,   \* App state
    treeError,       \* App state: << >> or << message >>
    listCalls,       \* listDir calls of refreshFileTree not yet settled
    nRefresh,        \* number of refreshFileTree invocations so far
    expandedFolders, \* Sidebar state: set of paths
    pendingOps,      \* Sidebar handlers suspended at an await on a storage call
    treeCalls,       \* every mutating storage call issued by the Sidebar, in order
    treeRejected,    \* the calls (indices of treeCalls) whose promise rejected
    alerts,          \* number of alert() dialogs raised by the Sidebar
    trashItems,      \* Sidebar state: the trash listing last loaded
    trashLoads,      \* number of listTrash calls of loadTrash not yet settled
    copiedFile,      \* Sidebar state: << >> or << the FileItem copied with Ctrl+C >>
    keydownTree,     \* the fileTree in the closure of the handlePaste that the
                     \* keydown listener registered by the last run of the
                     \* keydown effect calls
    args,            \* the function and the arguments of a call of a pure function
    result           \* << >> until that call has returned, then << its value >>

canvasVars == <<initialData, isLoading, loadError, isSaving, canRender,
                saveTimerRef, currentFileRef, lastDataRef, timers, loads,
                saves, calls, rejected, accepted, changes, ignoredChanges,
                selections>>

\* the Sidebar state that the tree operations other than the trash and the
\* clipboard handlers leave alone
trashVars == <<trashItems, trashLoads, copiedFile, keydownTree>>

treeVars == <<fileTree, isLoadingTree, treeError, listCalls, nRefresh,
              expandedFolders, pendingOps, treeCalls, treeRejected, alerts,
              trashVars>>

\* a call of one of the pure functions, followed on its own
callVars == <<args, result>>

vars == <<selectedFile, canvasVars, treeVars, callVars>>

\* the number of selection changes so far
nSel == Len(selections)

(***************************************************************************)
(* Bounds of the model.                                                    *)
(***************************************************************************)
MaxSelections == 3
MaxChanges == 2
TickMs == 500
MaxRefreshes == 2
MaxTreeOps == 1
MaxClipboardRefreshes == 3
MaxDepth == 2
MaxWidth == 2
MaxNameLen == 2

\* the delay handleChange passes to setTimeout
DebounceMs == 1000

(***************************************************************************)
(* Strings and paths.                                                      *)
(***************************************************************************)
NullPath == << >>

CanvasSuffix == <<".", "e", "x", "c", "a", "l", "i", "d", "r", "a", "w">>

FileItem(name, path, isFolder) ==
    [name |-> name, path |-> path, isFolder |-> isFolder,
     hasChildren |-> FALSE, children |-> << >>]

CanvasA == FileItem(<<"a">> \o CanvasSuffix, <<"a">> \o CanvasSuffix, FALSE)
CanvasB == FileItem(<<"b">> \o CanvasSuffix, <<"b">> \o CanvasSuffix, FALSE)
CanvasC == FileItem(<<"c">> \o CanvasSuffix, <<"c">> \o CanvasSuffix, FALSE)

\* the values the selectedFile prop of the canvas takes
CanvasSelections == {<< >>, <<CanvasA>>, <<CanvasB>>, <<CanvasC>>}

\* selectedFile?.path
SelPath(sel) == IF sel = << >> THEN NullPath ELSE sel[1].path

\* s.startsWith(prefix)
StartsWith(s, prefix) ==
    Len(s) >= Len(prefix) /\ SubSeq(s, 1, Len(prefix)) = prefix

\* s.includes("/")
IncludesSlash(s) == \E i \in DOMAIN s : s[i] = "/"

\* s.lastIndexOf("/"), 1-based; 0 when there is none
LastIndexOfSlash(s) ==
    IF IncludesSlash(s)
    THEN CHOOSE i \in DOMAIN s : s[i] = "/" /\ \A j \in DOMAIN s : s[j] = "/" => j <= i
    ELSE 0

\* s.endsWith(suffix)
EndsWith(s, suffix) ==
    Len(s) >= Len(suffix) /\ SubSeq(s, Len(s) - Len(suffix) + 1, Len(s)) = suffix

\* s.trim(), for the white space " "
RECURSIVE Trim(_)
Trim(s) ==
    IF s = << >> THEN s
    ELSE IF Head(s) = " " THEN Trim(Tail(s))
    ELSE IF s[Len(s)] = " " THEN Trim(SubSeq(s, 1, Len(s) - 1))
    ELSE s

\* the characters of the class [/\\?%*:|"<>]
UnsafeChars == {"/", "\\", "?", "%", "*", ":", "|", "\"", "<", ">"}

\* a replace without the g flag: only the first unsafe character is replaced
SafeName_FirstOnly(name) ==
    [i \in DOMAIN name |->
        IF name[i] \in UnsafeChars /\ \A j \in 1..(i - 1) : name[j] \notin UnsafeChars
        THEN "-" ELSE name[i]]

\* name.replace(/[/\\?%*:|"<>]/g, "-")
SafeName(name) ==
    [i \in DOMAIN name |-> IF name[i] \in UnsafeChars THEN "-" ELSE name[i]]

\* the name shown for a node: its name without the canvas suffix
DisplayName(name) ==
    IF EndsWith(name, CanvasSuffix)
    THEN SubSeq(name, 1, Len(name) - Len(CanvasSuffix))
    ELSE name

\* path.includes("/") ? path.substring(0, path.lastIndexOf("/")) : ""
ParentPath(path) ==
    IF IncludesSlash(path) THEN SubSeq(path, 1, LastIndexOfSlash(path) - 1) ELSE << >>

\* parentPath ? `${parentPath}/${name}` : name
JoinPath(parentPath, name) ==
    IF parentPath # << >> THEN parentPath \o <<"/">> \o name ELSE name

(***************************************************************************)
(* The file tree: FileItem nodes and the listings the storage may return.  *)
(***************************************************************************)
File(path, name) == FileItem(name, path, FALSE)

\* a folder whose children field is present (possibly empty)
Folder(path, name, children) ==
    [name |-> name, path |-> path, isFolder |-> TRUE,
     hasChildren |-> TRUE, children |-> children]

\* a folder whose children field is absent
FolderNoChildren(path, name) == FileItem(name, path, TRUE)

NameB == <<"b">> \o CanvasSuffix
PathD == <<"d">>
PathDE == <<"d", "/", "e">>
PathDB == <<"d", "/">> \o NameB

Listing1 ==
    <<Folder(PathD, <<"d">>, <<Folder(PathDE, <<"e">>, << >>), File(PathDB, NameB)>>),
      CanvasA>>

\* the same nodes in another order
Listing2 ==
    <<CanvasA,
      Folder(PathD, <<"d">>, <<File(PathDB, NameB), Folder(PathDE, <<"e">>, << >>)>>)>>

\* d/b.excalidraw is gone, and the children of d/e were not listed
Listing3 ==
    <<Folder(PathD, <<"d">>, <<FolderNoChildren(PathDE, <<"e">>)>>), CanvasA>>

\* a folder now sits at the path of canvas a
Listing4 ==
    <<Folder(CanvasA.path, CanvasA.name, << >>), CanvasC>>

\* a canvas two folders deep
PathDEC == <<"d", "/", "e", "/", "c">> \o CanvasSuffix

Listing5 ==
    <<Folder(PathD, <<"d">>,
             <<Folder(PathDE, <<"e">>, <<File(PathDEC, CanvasC.name)>>)>>)>>

\* canvas a and a copy of it
CopySuffix == <<" ", "c", "o", "p", "y">>

Listing6 ==
    <<CanvasA, File(<<"a">> \o CopySuffix \o CanvasSuffix,
                    <<"a">> \o CopySuffix \o CanvasSuffix)>>

Listings == {<< >>, Listing1, Listing2, Listing3, Listing4, Listing5, Listing6}

\* an entry of the trash listing
TrashedB ==
    [name |-> NameB, trashPath |-> <<"1", "_">> \o NameB, originalPath |-> PathDB,
     isFolder |-> FALSE, trashedAt |-> 1]

\* what listTrash may resolve with
TrashListings == {<< >>, <<TrashedB>>}

\* findFileByPath without the descent into children
RECURSIVE findFileByPath_TopLevelOnly(_, _)
findFileByPath_TopLevelOnly(tree, path) ==
    IF tree = << >>
    THEN << >>
    ELSE IF Head(tree).path = path THEN <<Head(tree)>>
    ELSE findFileByPath_TopLevelOnly(Tail(tree), path)

\* a search that tries every sibling before it descends
RECURSIVE findFileByPath_SiblingsFirst(_, _)
findFileByPath_SiblingsFirst(tree, path) ==
    IF \E i \in DOMAIN tree : tree[i].path = path
    THEN <<tree[CHOOSE i \in DOMAIN tree :
                  tree[i].path = path /\ \A j \in 1..(i - 1) : tree[j].path # path]>>
    ELSE IF tree = << >> THEN << >>
    ELSE LET item == Head(tree)
             found == IF item.isFolder /\ item.hasChildren
                      THEN findFileByPath_SiblingsFirst(item.children, path)
                      ELSE << >>
         IN  IF found # << >> THEN found
             ELSE findFileByPath_SiblingsFirst(Tail(tree), path)

RECURSIVE findFileByPath(_, _)
findFileByPath(tree, path) ==
    IF tree = << >>
    THEN << >>
    ELSE LET item == Head(tree)
             found == IF item.isFolder /\ item.hasChildren
                      THEN findFileByPath(item.children, path)
                      ELSE << >>
         IN  IF item.path = path THEN <<item>>
             ELSE IF found # << >> THEN found
             ELSE findFileByPath(Tail(tree), path)

\* every node the Sidebar renders for a forest, at any depth
RECURSIVE NodesOf(_)
NodesOf(tree) ==
    UNION {{tree[i]} \cup (IF tree[i].isFolder /\ tree[i].hasChildren
                           THEN NodesOf(tree[i].children) ELSE {})
           : i \in DOMAIN tree}

(***************************************************************************)
(* App.                                                                    *)
(***************************************************************************)
\* App and Sidebar after their first render: the mount effects have called
\* refreshFileTree and loadTrash
TreeInit ==
    /\ fileTree = << >>
    /\ isLoadingTree = TRUE
    /\ treeError = << >>
    /\ listCalls = {1}
    /\ nRefresh = 1
    /\ expandedFolders = {}
    /\ pendingOps = {}
    /\ treeCalls = << >>
    /\ treeRejected = {}
    /\ alerts = 0
    /\ trashItems = << >>
    /\ trashLoads = 1
    /\ copiedFile = << >>
    /\ keydownTree = << >>

\* refreshFileTree up to "await listDir()"
StartRefresh ==
    /\ isLoadingTree' = TRUE
    /\ treeError' = << >>
    /\ listCalls' = listCalls \cup {nRefresh + 1}
    /\ nRefresh' = nRefresh + 1

\* the refresh button of the Sidebar
RefreshFileTree ==
    /\ nRefresh + Cardinality(pendingOps) < MaxRefreshes
    /\ StartRefresh
    /\ UNCHANGED <<selectedFile, fileTree, expandedFolders, pendingOps,
                   treeCalls, alerts>>
    /\ UNCHANGED treeRejected
    /\ UNCHANGED trashVars
    /\ UNCHANGED <<canvasVars, callVars>>

\* a refresh after which the folders that the listing no longer has are no
\* longer expanded
ListDirResolve_PrunesExpansion(id, tree) ==
    /\ id \in listCalls
    /\ listCalls' = listCalls \ {id}
    /\ fileTree' = tree
    /\ selectedFile' = IF selectedFile = << >>
                       THEN << >>
                       ELSE findFileByPath(tree, selectedFile[1].path)
    /\ isLoadingTree' = FALSE
    /\ keydownTree' = IF selectedFile # << >> THEN tree ELSE keydownTree
    /\ expandedFolders' = {path \in expandedFolders :
                              \E node \in NodesOf(tree) :
                                  node.isFolder /\ node.path = path}
    /\ UNCHANGED <<treeError, nRefresh, pendingOps, treeCalls, alerts>>
    /\ UNCHANGED treeRejected
    /\ UNCHANGED <<trashItems, trashLoads, copiedFile>>
    /\ UNCHANGED <<canvasVars, callVars>>

\* a refreshFileTree that drops the listing of a request that is not the
\* last one issued
ListDirResolve_LatestOnly(id, tree) ==
    /\ id \in listCalls
    /\ listCalls' = listCalls \ {id}
    /\ fileTree' = IF id = nRefresh THEN tree ELSE fileTree
    /\ selectedFile' = IF selectedFile = << >> \/ id # nRefresh
                       THEN selectedFile
                       ELSE findFileByPath(tree, selectedFile[1].path)
    /\ isLoadingTree' = FALSE
    /\ keydownTree' = IF selectedFile # << >> /\ id = nRefresh THEN tree ELSE keydownTree
    /\ UNCHANGED <<treeError, nRefresh, expandedFolders, pendingOps,
                   treeCalls, alerts>>
    /\ UNCHANGED treeRejected
    /\ UNCHANGED <<trashItems, trashLoads, copiedFile>>
    /\ UNCHANGED <<canvasVars, callVars>>

\* listDir resolves with tree. The nodes of tree are new objects, so a
\* selection there was is replaced (by a new node or by null) and the keydown
\* effect of the Sidebar, whose dependencies are [selectedFile, copiedFile],
\* runs again in the render that has the new fileTree.
ListDirResolve(id, tree) ==
    /\ id \in listCalls
    /\ listCalls' = listCalls \ {id}
    /\ fileTree' = tree
    /\ selectedFile' = IF selectedFile = << >>
                       THEN << >>
                       ELSE findFileByPath(tree, selectedFile[1].path)
    /\ isLoadingTree' = FALSE
    /\ keydownTree' = IF selectedFile # << >> THEN tree ELSE keydownTree
    /\ UNCHANGED <<treeError, nRefresh, expandedFolders, pendingOps,
                   treeCalls, alerts>>
    /\ UNCHANGED treeRejected
    /\ UNCHANGED <<trashItems, trashLoads, copiedFile>>
    /\ UNCHANGED <<canvasVars, callVars>>

\* a catch branch of refreshFileTree that also drops the forest and the selection
ListDirReject_DropsForest(id) ==
    /\ id \in listCalls
    /\ listCalls' = listCalls \ {id}
    /\ treeError' = <<"list failed">>
    /\ fileTree' = << >>
    /\ selectedFile' = << >>
    /\ isLoadingTree' = FALSE
    /\ UNCHANGED <<nRefresh, expandedFolders, pendingOps, treeCalls, alerts>>
    /\ UNCHANGED treeRejected
    /\ UNCHANGED trashVars
    /\ UNCHANGED <<canvasVars, callVars>>

\* listDir rejects
ListDirReject(id) ==
    /\ id \in listCalls
    /\ listCalls' = listCalls \ {id}
    /\ treeError' = <<"list failed">>
    /\ isLoadingTree' = FALSE
    /\ UNCHANGED <<selectedFile, fileTree, nRefresh, expandedFolders,
                   pendingOps, treeCalls, alerts>>
    /\ UNCHANGED treeRejected
    /\ UNCHANGED trashVars
    /\ UNCHANGED <<canvasVars, callVars>>

\* a handleSelectFile that selects folders too
HandleSelectFile_AnyNode(item) ==
    /\ selectedFile' = <<item>>
    /\ keydownTree' = IF selectedFile' # selectedFile THEN fileTree ELSE keydownTree
    /\ UNCHANGED <<fileTree, isLoadingTree, treeError, listCalls, nRefresh,
                   expandedFolders, pendingOps, treeCalls, treeRejected, alerts,
                   trashItems, trashLoads, copiedFile>>
    /\ UNCHANGED <<canvasVars, callVars>>

\* handleSelectFile
HandleSelectFile(item) ==
    /\ selectedFile' = IF ~item.isFolder THEN <<item>> ELSE selectedFile
    /\ keydownTree' = IF selectedFile' # selectedFile THEN fileTree ELSE keydownTree
    /\ UNCHANGED <<fileTree, isLoadingTree, treeError, listCalls, nRefresh,
                   expandedFolders, pendingOps, treeCalls, treeRejected, alerts,
                   trashItems, trashLoads, copiedFile>>
    /\ UNCHANGED <<canvasVars, callVars>>

(***************************************************************************)
(* Sidebar.                                                                *)
(***************************************************************************)
\* room for one more storage call, and for the refresh that follows it
MayStartOp ==
    /\ Len(treeCalls) < MaxTreeOps
    /\ nRefresh + Cardinality(pendingOps) < MaxRefreshes

\* An entry of treeCalls: the capability, its arguments, the handler that
\* called it and, for a move, the folder dropped on.
RenameCall(oldPath, newPath, by, target) ==
    [op |-> "renameItem", path |-> oldPath, newPath |-> newPath,
     by |-> by, target |-> target]

\* Sidebar.handleMove up to "await renameItem"
HandleMove(sourcePath, targetFolderPath) ==
    LET fileName == IF IncludesSlash(sourcePath)
                    THEN SubSeq(sourcePath, LastIndexOfSlash(sourcePath) + 1,
                                Len(sourcePath))
                    ELSE sourcePath
        newPath == targetFolderPath \o <<"/">> \o fileName
    IN  IF \/ StartsWith(sourcePath, targetFolderPath \o <<"/">>)
           \/ sourcePath = newPath
        THEN UNCHANGED <<treeCalls, pendingOps>>
        ELSE /\ treeCalls' = Append(treeCalls, RenameCall(sourcePath, newPath, "move",
                                                          targetFolderPath))
             /\ pendingOps' = pendingOps \cup
                    {[kind |-> "move", call |-> Len(treeCalls) + 1,
                      target |-> targetFolderPath]}

\* TreeNode.handleDrop: the node dragged from sourcePath is dropped on item
HandleDrop(item, sourcePath) ==
    /\ MayStartOp
    /\ IF /\ item.isFolder
          /\ sourcePath # << >>
          /\ sourcePath # item.path
          /\ ~StartsWith(sourcePath, item.path \o <<"/">>)
       THEN HandleMove(sourcePath, item.path)
       ELSE UNCHANGED <<treeCalls, pendingOps>>
    /\ UNCHANGED <<selectedFile, fileTree, isLoadingTree, treeError, listCalls,
                   nRefresh, expandedFolders, alerts>>
    /\ UNCHANGED treeRejected
    /\ UNCHANGED trashVars
    /\ UNCHANGED <<canvasVars, callVars>>

\* renameItem of a move resolves: onRefresh(), then the target is expanded
MoveResolve(o) ==
    /\ o \in pendingOps
    /\ o.kind = "move"
    /\ pendingOps' = pendingOps \ {o}
    /\ StartRefresh
    /\ expandedFolders' = expandedFolders \cup {o.target}
    /\ UNCHANGED <<selectedFile, fileTree, treeCalls, alerts>>
    /\ UNCHANGED treeRejected
    /\ UNCHANGED trashVars
    /\ UNCHANGED <<canvasVars, callVars>>

\* renameItem of a move rejects: alert
MoveReject(o) ==
    /\ o \in pendingOps
    /\ o.kind = "move"
    /\ pendingOps' = pendingOps \ {o}
    /\ treeRejected' = treeRejected \cup {o.call}
    /\ alerts' = alerts + 1
    /\ UNCHANGED <<selectedFile, fileTree, isLoadingTree, treeError, listCalls,
                   nRefresh, expandedFolders, treeCalls>>
    /\ UNCHANGED trashVars
    /\ UNCHANGED <<canvasVars, callVars>>

\* An entry of treeCalls for a capability other than a move: path is its
\* first argument (<< >> when it has none), newPath its second path argument.
GatewayCall(op, path, newPath, by) ==
    [op |-> op, path |-> path, newPath |-> newPath, by |-> by, target |-> NullPath]

\* A handler reaches "await" on a storage call: the call is issued and the
\* handler is suspended with what it does once the call has resolved: whether
\* it calls onRefresh(), whether it calls loadTrash(), and the paths it adds
\* to (expand) and deletes from (collapse) the expanded-folder set.
Await(call, refresh, reloadTrash, expand, collapse) ==
    /\ treeCalls' = Append(treeCalls, call)
    /\ pendingOps' = pendingOps \cup
           {[kind |-> call.by, call |-> Len(treeCalls) + 1, refresh |-> refresh,
             reloadTrash |-> reloadTrash, expand |-> expand, collapse |-> collapse]}

\* what an action that runs a Sidebar handler up to its await leaves alone
HandlerFrame ==
    /\ UNCHANGED <<selectedFile, fileTree, isLoadingTree, treeError, listCalls,
                   nRefresh, expandedFolders, treeRejected, alerts>>
    /\ UNCHANGED trashVars
    /\ UNCHANGED <<canvasVars, callVars>>

\* a handleSubmit that confirms whatever was typed
DialogHandleSubmit_NoEmptyCheck(value) == <<Trim(value)>>

\* Dialog.handleSubmit: the calls of onConfirm it makes: one with the trimmed
\* value, or none when that is empty
DialogHandleSubmit(value) ==
    IF Trim(value) # << >> THEN <<Trim(value)>> ELSE << >>

\* a handleNewCanvasConfirm that appends the suffix to every name
HandleNewCanvasConfirm_AlwaysSuffix(parentPath, name) ==
    LET fullPath == JoinPath(parentPath, SafeName(name) \o CanvasSuffix)
    IN  Await(GatewayCall("createCanvas", fullPath, NullPath, "newCanvas"),
              TRUE, FALSE, {}, {})

\* a handleNewCanvasConfirm that expands the folder it creates the canvas in
HandleNewCanvasConfirm_ExpandsParent(parentPath, name) ==
    LET safeName == SafeName(name)
        canvasName == IF EndsWith(safeName, CanvasSuffix)
                      THEN safeName ELSE safeName \o CanvasSuffix
        fullPath == JoinPath(parentPath, canvasName)
    IN  Await(GatewayCall("createCanvas", fullPath, NullPath, "newCanvas"),
              TRUE, FALSE, IF parentPath # << >> THEN {parentPath} ELSE {}, {})

\* handleNewCanvasConfirm, for the parentPath of the dialog
HandleNewCanvasConfirm(parentPath, name) ==
    LET safeName == SafeName(name)
        canvasName == IF EndsWith(safeName, CanvasSuffix)
                      THEN safeName ELSE safeName \o CanvasSuffix
        fullPath == JoinPath(parentPath, canvasName)
    IN  Await(GatewayCall("createCanvas", fullPath, NullPath, "newCanvas"),
              TRUE, FALSE, {}, {})

\* handleNewFolderConfirm
HandleNewFolderConfirm(parentPath, name) ==
    LET fullPath == JoinPath(parentPath, SafeName(name))
    IN  Await(GatewayCall("createFolder", fullPath, NullPath, "newFolder"),
              TRUE, FALSE, {fullPath}, {})

\* the path a rename handler computes for item and the name entered
RenamedPath(item, newName) ==
    LET safeName == SafeName(newName)
        finalName == IF ~item.isFolder /\ ~EndsWith(safeName, CanvasSuffix)
                     THEN safeName \o CanvasSuffix ELSE safeName
    IN  JoinPath(ParentPath(item.path), finalName)

\* handleInlineRename
HandleInlineRename(item, newName) ==
    LET newPath == RenamedPath(item, newName)
        moveEntry == item.isFolder /\ item.path \in expandedFolders
    IN  IF item.path = newPath
        THEN UNCHANGED <<treeCalls, pendingOps>>
        ELSE Await(RenameCall(item.path, newPath, "inlineRename", NullPath),
                   TRUE, FALSE,
                   IF moveEntry THEN {newPath} ELSE {},
                   IF moveEntry THEN {item.path} ELSE {})

\* handleRenameConfirm, for the item of the rename dialog
HandleRenameConfirm(item, newName) ==
    Await(RenameCall(item.path, RenamedPath(item, newName), "renameDialog", NullPath),
          TRUE, FALSE, {}, {})

\* TreeNode.handleEditSubmit (handleEditBlur is the same code)
HandleEditSubmit(item, editValue) ==
    LET trimmed == Trim(editValue)
    IN  IF trimmed # << >> /\ trimmed # DisplayName(item.name)
        THEN HandleInlineRename(item, trimmed)
        ELSE UNCHANGED <<treeCalls, pendingOps>>

\* handleTrashConfirm, for the item of the confirm dialog
HandleTrashConfirm(item) ==
    Await(GatewayCall("trashItem", item.path, NullPath, "trash"), TRUE, TRUE, {}, {})

\* handleRootDrop
HandleRootDrop(sourcePath) ==
    IF sourcePath = << >> \/ ~IncludesSlash(sourcePath)
    THEN UNCHANGED <<treeCalls, pendingOps>>
    ELSE LET fileName == SubSeq(sourcePath, LastIndexOfSlash(sourcePath) + 1,
                                Len(sourcePath))
         IN  Await(RenameCall(sourcePath, fileName, "rootDrop", NullPath),
                   TRUE, FALSE, {}, {})

\* a handleRestore that reloads the trash listing only
HandleRestore_TrashOnly(item) ==
    Await(GatewayCall("restoreItem", item.trashPath, NullPath, "restore"),
          FALSE, TRUE, {}, {})

\* handleRestore
HandleRestore(item) ==
    Await(GatewayCall("restoreItem", item.trashPath, NullPath, "restore"),
          TRUE, TRUE, {}, {})

\* handleDeletePermanentlyConfirm, for the item of the confirm dialog
HandleDeletePermanentlyConfirm(item) ==
    Await(GatewayCall("deletePermanently", item.trashPath, NullPath,
                      "deletePermanently"),
          FALSE, TRUE, {}, {})

\* handleEmptyTrashConfirm
HandleEmptyTrashConfirm ==
    Await(GatewayCall("emptyTrash", NullPath, NullPath, "emptyTrash"),
          FALSE, TRUE, {}, {})

\* handleIconSelect, for the item of the icon picker
HandleIconSelect(item) ==
    Await(GatewayCall("setItemIcon", item.path, NullPath, "setIcon"),
          TRUE, FALSE, {}, {})

\* String(counter), for a positive counter
RECURSIVE DecimalString(_)
DecimalString(n) ==
    LET digit == <<"0", "1", "2", "3", "4", "5", "6", "7", "8", "9">>[(n % 10) + 1]
    IN  IF n < 10 THEN <<digit>> ELSE DecimalString(n \div 10) \o <<digit>>

\* the loop of handlePaste: the first of "{name} copy", "{name} copy 2", ...
\* under targetPath that is the path of no node of the fileTree of its closure
RECURSIVE CopyPath(_, _, _)
CopyPath(originalName, targetPath, counter) ==
    LET newName == IF counter = 1
                   THEN originalName \o CopySuffix
                   ELSE originalName \o CopySuffix \o <<" ">> \o DecimalString(counter)
        newPath == JoinPath(targetPath, newName \o CanvasSuffix)
    IN  IF \E node \in NodesOf(keydownTree) : node.path = newPath
        THEN CopyPath(originalName, targetPath, counter + 1)
        ELSE newPath

\* handlePaste
HandlePaste ==
    IF copiedFile = << >>
    THEN UNCHANGED <<treeCalls, pendingOps>>
    ELSE LET originalName == DisplayName(copiedFile[1].name)
             targetPath == IF selectedFile = << >> THEN << >>
                           ELSE IF selectedFile[1].isFolder THEN selectedFile[1].path
                           ELSE ParentPath(selectedFile[1].path)
             newPath == CopyPath(originalName, targetPath, 1)
         IN  Await(GatewayCall("copyCanvas", copiedFile[1].path, newPath, "paste"),
                   TRUE, FALSE,
                   IF targetPath # << >> THEN {targetPath} ELSE {}, {})

\* a handleToggleFolder that collapses every other folder when it expands one
HandleToggleFolder_Accordion(path) ==
    /\ expandedFolders' = IF path \in expandedFolders
                          THEN expandedFolders \ {path}
                          ELSE {path}
    /\ UNCHANGED <<selectedFile, fileTree, isLoadingTree, treeError, listCalls,
                   nRefresh, pendingOps, treeCalls, treeRejected, alerts>>
    /\ UNCHANGED trashVars
    /\ UNCHANGED <<canvasVars, callVars>>

\* handleToggleFolder
HandleToggleFolder(path) ==
    /\ expandedFolders' = IF path \in expandedFolders
                          THEN expandedFolders \ {path}
                          ELSE expandedFolders \cup {path}
    /\ UNCHANGED <<selectedFile, fileTree, isLoadingTree, treeError, listCalls,
                   nRefresh, pendingOps, treeCalls, treeRejected, alerts>>
    /\ UNCHANGED trashVars
    /\ UNCHANGED <<canvasVars, callVars>>

\* the keydown handler, Ctrl+C: a selected canvas is copied
CopyKey ==
    /\ selectedFile # << >>
    /\ ~selectedFile[1].isFolder
    /\ copiedFile' = selectedFile
    /\ keydownTree' = IF copiedFile' # copiedFile THEN fileTree ELSE keydownTree
    /\ UNCHANGED <<selectedFile, fileTree, isLoadingTree, treeError, listCalls,
                   nRefresh, expandedFolders, pendingOps, treeCalls, treeRejected,
                   alerts, trashItems, trashLoads>>
    /\ UNCHANGED <<canvasVars, callVars>>

\* the keydown handler, Ctrl+V
PasteKey ==
    /\ MayStartOp
    /\ copiedFile # << >>
    /\ HandlePaste
    /\ HandlerFrame

\* the parentPath the context menu hands to a create dialog: for a menu
\* opened on item, and "" for the menu of the root
MenuParentPath(item) ==
    IF item.isFolder THEN item.path ELSE ParentPath(item.path)

\* the names typed into a create dialog
TypedNames == {<<"n">>, <<" ">>, <<"n">> \o CanvasSuffix, <<" ", "n", "/">>}

\* the values with which the edit of the name of item is submitted
EditedNames(item) ==
    {<< >>, <<" ">>, <<"n">>, <<"n", "?", ":">>, DisplayName(item.name),
     <<" ">> \o DisplayName(item.name)}

\* the new-canvas dialog is submitted with value
NewCanvasDialog(parentPath, value) ==
    /\ MayStartOp
    /\ IF DialogHandleSubmit(value) # << >>
       THEN HandleNewCanvasConfirm(parentPath, DialogHandleSubmit(value)[1])
       ELSE UNCHANGED <<treeCalls, pendingOps>>
    /\ HandlerFrame

\* the new-folder dialog is submitted with value
NewFolderDialog(parentPath, value) ==
    /\ MayStartOp
    /\ IF DialogHandleSubmit(value) # << >>
       THEN HandleNewFolderConfirm(parentPath, DialogHandleSubmit(value)[1])
       ELSE UNCHANGED <<treeCalls, pendingOps>>
    /\ HandlerFrame

\* the rename dialog opened for item is submitted with value
RenameDialog(item, value) ==
    /\ MayStartOp
    /\ IF DialogHandleSubmit(value) # << >>
       THEN HandleRenameConfirm(item, DialogHandleSubmit(value)[1])
       ELSE UNCHANGED <<treeCalls, pendingOps>>
    /\ HandlerFrame

\* the inline edit of the name of item is submitted with editValue
InlineEdit(item, editValue) ==
    /\ MayStartOp
    /\ HandleEditSubmit(item, editValue)
    /\ HandlerFrame

\* the trash dialog opened for item is confirmed
TrashDialog(item) ==
    /\ MayStartOp
    /\ HandleTrashConfirm(item)
    /\ HandlerFrame

\* the node dragged from sourcePath is dropped on the root area
RootDrop(sourcePath) ==
    /\ MayStartOp
    /\ HandleRootDrop(sourcePath)
    /\ HandlerFrame

\* "restore" of the trash context menu of item
Restore(item) ==
    /\ MayStartOp
    /\ HandleRestore(item)
    /\ HandlerFrame

\* the delete-permanently dialog opened for item is confirmed
DeletePermanentlyDialog(item) ==
    /\ MayStartOp
    /\ HandleDeletePermanentlyConfirm(item)
    /\ HandlerFrame

\* handleEmptyTrash opens the dialog for a non-empty trash; it is confirmed
EmptyTrashDialog ==
    /\ MayStartOp
    /\ trashItems # << >>
    /\ HandleEmptyTrashConfirm
    /\ HandlerFrame

\* an icon is picked in the icon picker opened for the canvas item
IconPicked(item) ==
    /\ MayStartOp
    /\ ~item.isFolder
    /\ HandleIconSelect(item)
    /\ HandlerFrame

\* The storage call of a suspended handler other than handleMove resolves:
\* onRefresh(), loadTrash() and setExpandedFolders as the handler has them.
OpResolve(o) ==
    /\ o \in pendingOps
    /\ o.kind # "move"
    /\ pendingOps' = pendingOps \ {o}
    /\ IF o.refresh
       THEN StartRefresh
       ELSE UNCHANGED <<isLoadingTree, treeError, listCalls, nRefresh>>
    /\ expandedFolders' = (expandedFolders \ o.collapse) \cup o.expand
    /\ trashLoads' = IF o.reloadTrash THEN trashLoads + 1 ELSE trashLoads
    /\ UNCHANGED <<selectedFile, fileTree, treeCalls, treeRejected, alerts,
                   trashItems, copiedFile, keydownTree>>
    /\ UNCHANGED <<canvasVars, callVars>>

\* a catch block that runs after the handler has expanded its folder
OpReject_AfterExpanding(o) ==
    /\ o \in pendingOps
    /\ o.kind # "move"
    /\ pendingOps' = pendingOps \ {o}
    /\ treeRejected' = treeRejected \cup {o.call}
    /\ alerts' = alerts + 1
    /\ expandedFolders' = (expandedFolders \ o.collapse) \cup o.expand
    /\ UNCHANGED <<selectedFile, fileTree, isLoadingTree, treeError, listCalls,
                   nRefresh, treeCalls>>
    /\ UNCHANGED trashVars
    /\ UNCHANGED <<canvasVars, callVars>>

\* The storage call of a suspended handler other than handleMove rejects:
\* the catch block raises an alert.
OpReject(o) ==
    /\ o \in pendingOps
    /\ o.kind # "move"
    /\ pendingOps' = pendingOps \ {o}
    /\ treeRejected' = treeRejected \cup {o.call}
    /\ alerts' = alerts + 1
    /\ UNCHANGED <<selectedFile, fileTree, isLoadingTree, treeError, listCalls,
                   nRefresh, expandedFolders, treeCalls>>
    /\ UNCHANGED trashVars
    /\ UNCHANGED <<canvasVars, callVars>>

\* loadTrash: listTrash settles; it resolves with items (ok), or it rejects,
\* which is ignored
ListTrashSettle(ok, items) ==
    /\ trashLoads > 0
    /\ trashLoads' = trashLoads - 1
    /\ trashItems' = IF ok THEN items ELSE trashItems
    /\ UNCHANGED <<selectedFile, fileTree, isLoadingTree, treeError, listCalls,
                   nRefresh, expandedFolders, pendingOps, treeCalls, treeRejected,
                   alerts, copiedFile, keydownTree>>
    /\ UNCHANGED <<canvasVars, callVars>>

TreeNext ==
    \/ RefreshFileTree
    \/ \E id \in listCalls : \E tree \in Listings : ListDirResolve(id, tree)
    \/ \E id \in listCalls : ListDirReject(id)
    \/ \E item \in NodesOf(fileTree) : HandleSelectFile(item)
    \/ \E item \in NodesOf(fileTree) : \E source \in NodesOf(fileTree) :
          HandleDrop(item, source.path)
    \/ \E o \in pendingOps : MoveResolve(o)
    \/ \E o \in pendingOps : MoveReject(o)
    \/ \E item \in NodesOf(fileTree) : item.isFolder /\ HandleToggleFolder(item.path)
    \/ \E item \in NodesOf(fileTree) : \E value \in TypedNames :
          NewCanvasDialog(MenuParentPath(item), value)
    \/ \E value \in TypedNames : NewCanvasDialog(<< >>, value)
    \/ \E item \in NodesOf(fileTree) : \E value \in TypedNames :
          NewFolderDialog(MenuParentPath(item), value)
    \/ \E item \in NodesOf(fileTree) : \E value \in EditedNames(item) :
          RenameDialog(item, value)
    \/ \E item \in NodesOf(fileTree) : \E value \in EditedNames(item) :
          InlineEdit(item, value)
    \/ \E item \in NodesOf(fileTree) : TrashDialog(item)
    \/ \E source \in NodesOf(fileTree) : RootDrop(source.path)
    \/ \E i \in DOMAIN trashItems : Restore(trashItems[i])
    \/ \E i \in DOMAIN trashItems : DeletePermanentlyDialog(trashItems[i])
    \/ EmptyTrashDialog
    \/ \E item \in NodesOf(fileTree) : IconPicked(item)
    \/ CopyKey
    \/ PasteKey
    \/ \E o \in pendingOps : OpResolve(o)
    \/ \E o \in pendingOps : OpReject(o)
    \/ \E ok \in BOOLEAN : \E items \in TrashListings : ListTrashSettle(ok, items)

(***************************************************************************)
(* Documents and their serialized text.                                    *)
(***************************************************************************)
DEFAULT_CANVAS_DATA ==
    [type |-> "excalidraw", version |-> 2, elements |-> << >>]

\* the document the storage holds at the path of read call k, as returned to
\* that call: every read returns its own document
StoredDocument(k) ==
    [type |-> "excalidraw", version |-> 2, elements |-> <<k>>]

\* the data object the save paths build from a snapshot (elements, appState, files)
CanvasData(snapshot) ==
    [type |-> "excalidraw", version |-> 2, elements |-> snapshot.elements]

\* JSON.stringify: a text that parses back to the document
JSONstringify(doc) == [valid |-> TRUE, doc |-> <<doc>>]

\* a text that is not valid JSON
NotValidJson == [valid |-> FALSE, doc |-> << >>]

\* JSON.parse: << document >>, or << >> when it throws
JSONparse(text) == IF text.valid THEN text.doc ELSE << >>

\* the snapshot handed to handleChange by change event n
Snapshot(n) == [elements |-> <<n>>]

\* An entry of calls: the capability called, its arguments, the code path that
\* called it ("flush": forceSave, "timer": the debounce callback, "load":
\* loadFile) and the number of the selection change it ran under.
SaveCall(path, snapshot, by, sel) ==
    [op |-> "save", path |-> path,
     content |-> <<JSONstringify(CanvasData(snapshot))>>, by |-> by, sel |-> sel]

ReadCall(path, sel) ==
    [op |-> "read", path |-> path, content |-> << >>, by |-> "load", sel |-> sel]

\* clearTimeout(handle): a null or stale handle clears nothing
ClearTimeout(ts, handle) == {t \in ts : t.id # handle}

(***************************************************************************)
(* ExcalidrawCanvas.                                                       *)
(***************************************************************************)
CanvasInit ==
    /\ initialData = << >>
    /\ isLoading = FALSE
    /\ loadError = << >>
    /\ isSaving = FALSE
    /\ canRender = FALSE
    /\ saveTimerRef = 0
    /\ currentFileRef = NullPath
    /\ lastDataRef = << >>
    /\ timers = {}
    /\ loads = {}
    /\ saves = {}
    /\ calls = << >>
    /\ rejected = {}
    /\ accepted = {}
    /\ changes = << >>
    /\ ignoredChanges = 0
    /\ selections = << >>

\* loadFile with no file selected
LoadNothing ==
    /\ initialData' = << >>
    /\ loadError' = << >>
    /\ canRender' = FALSE
    /\ isLoading' = FALSE
    /\ UNCHANGED <<isSaving, saveTimerRef, currentFileRef, lastDataRef,
                   loads, saves, calls, changes>>

\* loadFile for a selected path, up to its first await on a storage call.
\* forceSave returns at once when there is nothing to save; the await on it
\* then resumes before any other event, so the run continues to readCanvas.
LoadFile(path) ==
    LET flush == currentFileRef # NullPath /\ currentFileRef # path
        saving == flush /\ lastDataRef # << >>
    IN  /\ saveTimerRef' = 0
        /\ isLoading' = TRUE
        /\ canRender' = FALSE
        /\ IF saving
           THEN /\ isSaving' = TRUE
                /\ calls' = Append(calls,
                                   SaveCall(currentFileRef, lastDataRef[1], "flush",
                                            nSel + 1))
                /\ loads' = loads \cup {[sel |-> nSel + 1, path |-> path,
                                         pc |-> "flush", call |-> Len(calls) + 1]}
                /\ UNCHANGED <<currentFileRef, loadError>>
           ELSE /\ isSaving' = IF flush THEN FALSE ELSE isSaving
                /\ currentFileRef' = path
                /\ loadError' = << >>
                /\ calls' = Append(calls, ReadCall(path, nSel + 1))
                /\ loads' = loads \cup {[sel |-> nSel + 1, path |-> path,
                                         pc |-> "read", call |-> Len(calls) + 1]}
        /\ UNCHANGED <<initialData, lastDataRef, saves, changes>>

\* a selection change whose cleanup and loadFile leave the pending timer alone
SelectionChange_KeepsTimer(sel) ==
    /\ nSel < MaxSelections
    /\ SelPath(sel) # SelPath(selectedFile)
    /\ selectedFile' = sel
    /\ selections' = Append(selections, SelPath(sel))
    /\ timers' = timers
    /\ IF sel = << >> THEN LoadNothing ELSE LoadFile(sel[1].path)
    /\ UNCHANGED <<rejected, accepted, ignoredChanges>>
    /\ UNCHANGED <<treeVars, callVars>>

\* The selectedFile prop changes its path: the cleanup of the previous effect
\* runs, then the effect calls loadFile.
SelectionChange(sel) ==
    /\ nSel < MaxSelections
    /\ SelPath(sel) # SelPath(selectedFile)
    /\ selectedFile' = sel
    /\ selections' = Append(selections, SelPath(sel))
    /\ timers' = ClearTimeout(timers, saveTimerRef)
    /\ IF sel = << >> THEN LoadNothing ELSE LoadFile(sel[1].path)
    /\ UNCHANGED <<rejected, accepted, ignoredChanges>>
    /\ UNCHANGED <<treeVars, callVars>>

\* a loadFile that gives up when the flush save rejects
FlushSettle_AbortOnReject(l, ok) ==
    /\ l \in loads
    /\ l.pc = "flush"
    /\ rejected' = IF ok THEN rejected ELSE rejected \cup {l.call}
    /\ isSaving' = FALSE
    /\ IF ok
       THEN /\ currentFileRef' = l.path
            /\ loadError' = << >>
            /\ calls' = Append(calls, ReadCall(l.path, l.sel))
            /\ loads' = (loads \ {l}) \cup
                           {[l EXCEPT !.pc = "read", !.call = Len(calls) + 1]}
       ELSE /\ loads' = loads \ {l}
            /\ UNCHANGED <<currentFileRef, loadError, calls>>
    /\ UNCHANGED <<selectedFile, initialData, isLoading, canRender, saveTimerRef,
                   lastDataRef, timers, saves, accepted, changes, ignoredChanges,
                   selections>>
    /\ UNCHANGED <<treeVars, callVars>>

\* The saveCanvas call of forceSave settles (ok: it resolved; forceSave logs
\* and swallows a rejection) and loadFile resumes after "await forceSave()".
FlushSettle(l, ok) ==
    /\ l \in loads
    /\ l.pc = "flush"
    /\ rejected' = IF ok THEN rejected ELSE rejected \cup {l.call}
    /\ isSaving' = FALSE
    /\ currentFileRef' = l.path
    /\ loadError' = << >>
    /\ calls' = Append(calls, ReadCall(l.path, l.sel))
    /\ loads' = (loads \ {l}) \cup {[l EXCEPT !.pc = "read", !.call = Len(calls) + 1]}
    /\ UNCHANGED <<selectedFile, initialData, isLoading, canRender, saveTimerRef,
                   lastDataRef, timers, saves, accepted, changes, ignoredChanges,
                   selections>>
    /\ UNCHANGED <<treeVars, callVars>>

\* readCanvas resolves with content.
ReadResolve(l, content) ==
    /\ l \in loads
    /\ l.pc = "read"
    /\ loads' = loads \ {l}
    /\ accepted' = IF currentFileRef # l.path THEN accepted ELSE accepted \cup {l.call}
    /\ IF currentFileRef # l.path
       THEN UNCHANGED <<initialData, canRender, isLoading>>
       ELSE /\ initialData' = IF JSONparse(content) # << >>
                              THEN JSONparse(content)
                              ELSE <<DEFAULT_CANVAS_DATA>>
            /\ canRender' = TRUE
            /\ isLoading' = FALSE
    /\ UNCHANGED <<selectedFile, loadError, isSaving, saveTimerRef, currentFileRef,
                   lastDataRef, timers, saves, calls, rejected, changes,
                   ignoredChanges, selections>>
    /\ UNCHANGED <<treeVars, callVars>>

\* a catch branch of loadFile that shows the error and stays in loading
ReadReject_DeadEnd(l) ==
    /\ l \in loads
    /\ l.pc = "read"
    /\ loads' = loads \ {l}
    /\ rejected' = rejected \cup {l.call}
    /\ accepted' = IF currentFileRef # l.path THEN accepted ELSE accepted \cup {l.call}
    /\ loadError' = IF currentFileRef # l.path THEN loadError ELSE <<"read failed">>
    /\ UNCHANGED <<selectedFile, initialData, canRender, isLoading, isSaving,
                   saveTimerRef, currentFileRef, lastDataRef, timers, saves, calls,
                   changes, ignoredChanges, selections>>
    /\ UNCHANGED <<treeVars, callVars>>

\* readCanvas rejects.
ReadReject(l) ==
    /\ l \in loads
    /\ l.pc = "read"
    /\ loads' = loads \ {l}
    /\ rejected' = rejected \cup {l.call}
    /\ accepted' = IF currentFileRef # l.path THEN accepted ELSE accepted \cup {l.call}
    /\ IF currentFileRef # l.path
       THEN UNCHANGED <<initialData, canRender, isLoading, loadError>>
       ELSE /\ loadError' = <<"read failed">>
            /\ initialData' = <<DEFAULT_CANVAS_DATA>>
            /\ canRender' = TRUE
            /\ isLoading' = FALSE
    /\ UNCHANGED <<selectedFile, isSaving, saveTimerRef, currentFileRef,
                   lastDataRef, timers, saves, calls, changes, ignoredChanges, selections>>
    /\ UNCHANGED <<treeVars, callVars>>

\* the drawing surface is rendered only for a selected, loaded file
SurfaceMounted == selectedFile # << >> /\ ~isLoading /\ canRender

\* a handleChange without the guard on selectedFile
HandleChange_NoGuard ==
    /\ Len(changes) + ignoredChanges < MaxChanges
    /\ SurfaceMounted \/ selectedFile = << >>
    /\ LET n == Len(changes) + 1
       IN  /\ lastDataRef' = <<Snapshot(n)>>
           /\ timers' = ClearTimeout(timers, saveTimerRef) \cup
                          {[id |-> n, filePath |-> SelPath(selectedFile),
                            snapshot |-> Snapshot(n), elapsed |-> 0]}
           /\ saveTimerRef' = n
           /\ changes' = Append(changes, [path |-> SelPath(selectedFile),
                                          after |-> rejected])
    /\ ignoredChanges' = IF selectedFile = << >>
                         THEN ignoredChanges + 1 ELSE ignoredChanges
    /\ UNCHANGED <<selectedFile, initialData, isLoading, loadError, isSaving,
                   canRender, currentFileRef, loads, saves, calls, rejected,
                   accepted, selections>>
    /\ UNCHANGED <<treeVars, callVars>>

\* handleChange: a change event of the drawing surface. The surface calls it
\* while mounted; with no file selected the handler returns at once.
HandleChange ==
    /\ Len(changes) + ignoredChanges < MaxChanges
    /\ SurfaceMounted \/ selectedFile = << >>
    /\ IF selectedFile = << >>
       THEN /\ ignoredChanges' = ignoredChanges + 1
            /\ UNCHANGED <<lastDataRef, timers, saveTimerRef, changes>>
       ELSE LET n == Len(changes) + 1
            IN  /\ lastDataRef' = <<Snapshot(n)>>
                /\ timers' = ClearTimeout(timers, saveTimerRef) \cup
                               {[id |-> n, filePath |-> SelPath(selectedFile),
                                 snapshot |-> Snapshot(n), elapsed |-> 0]}
                /\ saveTimerRef' = n
                /\ changes' = Append(changes, [path |-> SelPath(selectedFile),
                                               after |-> rejected])
                /\ UNCHANGED ignoredChanges
    /\ UNCHANGED <<selectedFile, initialData, isLoading, loadError, isSaving,
                   canRender, currentFileRef, loads, saves, calls, rejected,
                   accepted, selections>>
    /\ UNCHANGED <<treeVars, callVars>>

\* The callback of a timer runs, DebounceMs or more after it was armed.
TimerFire(t) ==
    /\ t \in timers
    /\ t.elapsed >= DebounceMs
    /\ timers' = timers \ {t}
    /\ IF currentFileRef # t.filePath
       THEN UNCHANGED <<isSaving, calls, saves>>
       ELSE /\ isSaving' = TRUE
            /\ calls' = Append(calls, SaveCall(t.filePath, t.snapshot, "timer", nSel))
            /\ saves' = saves \cup {Len(calls) + 1}
    /\ UNCHANGED <<selectedFile, initialData, isLoading, loadError, canRender,
                   saveTimerRef, currentFileRef, lastDataRef, loads, rejected,
                   accepted, changes, ignoredChanges, selections>>
    /\ UNCHANGED <<treeVars, callVars>>

\* The saveCanvas call of a timer callback settles (ok: it resolved); a
\* rejection is logged only.
TimerSaveSettle(k, ok) ==
    /\ k \in saves
    /\ saves' = saves \ {k}
    /\ rejected' = IF ok THEN rejected ELSE rejected \cup {k}
    /\ isSaving' = FALSE
    /\ UNCHANGED <<selectedFile, initialData, isLoading, loadError, canRender,
                   saveTimerRef, currentFileRef, lastDataRef, timers, loads,
                   calls, accepted, changes, ignoredChanges, selections>>
    /\ UNCHANGED <<treeVars, callVars>>

\* TickMs of time pass: every pending timer is that much closer to running.
Tick ==
    /\ \E t \in timers : t.elapsed < DebounceMs
    /\ timers' = {[t EXCEPT !.elapsed = IF @ + TickMs > DebounceMs
                                        THEN DebounceMs ELSE @ + TickMs] : t \in timers}
    /\ UNCHANGED <<selectedFile, initialData, isLoading, loadError, isSaving,
                   canRender, saveTimerRef, currentFileRef, lastDataRef, loads,
                   saves, calls, rejected, accepted, changes, ignoredChanges,
                   selections>>
    /\ UNCHANGED <<treeVars, callVars>>

\* what readCanvas may resolve with for read call k
ReadContents(k) == {JSONstringify(StoredDocument(k)), NotValidJson}

\* no call of a pure function is followed
NoCall == [fn |-> "none"]

Init ==
    /\ selectedFile = << >>
    /\ CanvasInit
    /\ TreeInit
    /\ args = NoCall
    /\ result = << >>

Next ==
    \/ \E sel \in CanvasSelections : SelectionChange(sel)
    \/ \E l \in loads : \E ok \in BOOLEAN : FlushSettle(l, ok)
    \/ \E l \in loads : \E content \in ReadContents(l.call) : ReadResolve(l, content)
    \/ \E l \in loads : ReadReject(l)
    \/ HandleChange
    \/ \E t \in timers : TimerFire(t)
    \/ \E k \in saves : \E ok \in BOOLEAN : TimerSaveSettle(k, ok)
    \/ Tick

\* The canvas under every sequence of values of its selectedFile prop.
Spec == Init /\ [][Next]_vars

\* a pending readCanvas call, or the saveCanvas call of a flush, settles, one
\* way or the other
Settle ==
    \/ \E l \in loads : \E ok \in BOOLEAN : FlushSettle(l, ok)
    \/ \E l \in loads : \E content \in ReadContents(l.call) : ReadResolve(l, content)
    \/ \E l \in loads : ReadReject(l)

\* selections, change events and the settling of the calls of loadFile; the
\* debounce timers stay pending
LoadingNext ==
    \/ \E sel \in CanvasSelections : SelectionChange(sel)
    \/ HandleChange
    \/ Settle

\* The loading of the canvas, every storage call that loadFile awaits
\* settling in the end.
SpecSettling == Init /\ [][LoadingNext]_vars /\ WF_vars(Settle)

\* App and Sidebar: the tree, the selection and the tree operations.
SpecTree == Init /\ [][TreeNext]_vars

\* the refresh button, as far as the clipboard specification follows it
ClipboardRefresh ==
    /\ nRefresh < MaxClipboardRefreshes
    /\ StartRefresh
    /\ UNCHANGED <<selectedFile, fileTree, expandedFolders, pendingOps,
                   treeCalls, alerts>>
    /\ UNCHANGED treeRejected
    /\ UNCHANGED trashVars
    /\ UNCHANGED <<canvasVars, callVars>>

\* the keydown handler, Ctrl+V, as far as the clipboard specification follows it
ClipboardPaste ==
    /\ Len(treeCalls) < MaxTreeOps
    /\ copiedFile # << >>
    /\ HandlePaste
    /\ HandlerFrame

ClipboardNext ==
    \/ ClipboardRefresh
    \/ \E id \in listCalls : \E tree \in Listings : ListDirResolve(id, tree)
    \/ \E id \in listCalls : ListDirReject(id)
    \/ \E item \in NodesOf(fileTree) : HandleSelectFile(item)
    \/ CopyKey
    \/ ClipboardPaste
    \/ \E o \in pendingOps : OpResolve(o)
    \/ \E o \in pendingOps : OpReject(o)

\* App and Sidebar: selection, Ctrl+C and Ctrl+V over a longer run of
\* refreshes of the tree.
SpecClipboard == Init /\ [][ClipboardNext]_vars

(***************************************************************************)
(* The pure functions, each called once on arguments from bounded sets.    *)
(***************************************************************************)
\* the sequences of length at most n over set
SeqsUpTo(set, n) == UNION {[1..k -> set] : k \in 0..n}

\* nodes without children: canvases (two of them at the same path), a
\* folder whose children are absent, a folder whose children are empty
Leaves ==
    {File(<<"a">>, <<"A">> \o CanvasSuffix), File(<<"a">>, <<"b">>),
     File(<<"b">>, <<"b">> \o CanvasSuffix),
     FolderNoChildren(<<"a">>, <<"a">>), Folder(<<"b">>, <<"b">>, << >>)}

\* a node that is not a folder and yet has children
FileWithChildren ==
    [name |-> <<"b">>, path |-> <<"b">>, isFolder |-> FALSE, hasChildren |-> TRUE,
     children |-> <<File(<<"a">>, <<"A">> \o CanvasSuffix)>>]

\* the forests of at most depth levels with at most MaxWidth siblings
RECURSIVE Forests(_)
Forests(depth) ==
    IF depth = 0
    THEN {<< >>}
    ELSE LET nodes == Leaves \cup {FileWithChildren} \cup
                      {Folder(path, name, children) :
                          path \in {<<"a">>}, name \in {<<"a">>, <<"B">>},
                          children \in Forests(depth - 1) \ {<< >>}}
         IN  SeqsUpTo(nodes, MaxWidth)

\* the names a user may type, of at most MaxNameLen characters
Names == SeqsUpTo(UnsafeChars \cup {"n", " ", "-"}, MaxNameLen)

FunctionArgs ==
    {[fn |-> "findFileByPath", tree |-> tree, path |-> path] :
        tree \in Forests(MaxDepth), path \in {<< >>, <<"a">>, <<"b">>, <<"c">>}}
    \cup {[fn |-> "filterFileTree", items |-> tree, query |-> query] :
        tree \in Forests(MaxDepth), query \in {<< >>, <<"a">>, <<"B">>}}
    \cup {[fn |-> "sanitizeName", name |-> name] : name \in Names}

\* c.toLowerCase(), for the letters of the names above
LowerChar(c) == IF c = "A" THEN "a" ELSE IF c = "B" THEN "b" ELSE c

\* a toLowerCase that leaves the case as it is
ToLowerCase_KeepsCase(s) == s

\* s.toLowerCase()
ToLowerCase(s) ==
    [i \in DOMAIN s |-> LowerChar(s[i])]

\* s.includes(sub)
Includes(s, sub) ==
    \E i \in 1..(Len(s) - Len(sub) + 1) : SubSeq(s, i, i + Len(sub) - 1) = sub

\* item.children || []
ChildrenOrEmpty(item) == IF item.hasChildren THEN item.children ELSE << >>

\* { ...item, children }
WithChildren(item, children) ==
    [item EXCEPT !.hasChildren = TRUE, !.children = children]

\* Sidebar.filterFileTree
RECURSIVE filterFileTree(_, _)
filterFileTree(items, query) ==
    IF query = << >> THEN items
    ELSE IF items = << >> THEN << >>
    ELSE LET item == Head(items)
             lowerQuery == ToLowerCase(query)
             matches == Includes(ToLowerCase(DisplayName(item.name)), lowerQuery)
             filteredChildren == filterFileTree(ChildrenOrEmpty(item), query)
             pushed == IF item.isFolder
                       THEN IF matches
                            THEN <<WithChildren(item, ChildrenOrEmpty(item))>>
                            ELSE IF Len(filteredChildren) > 0
                            THEN <<WithChildren(item, filteredChildren)>>
                            ELSE << >>
                       ELSE IF matches THEN <<item>> ELSE << >>
         IN  pushed \o filterFileTree(Tail(items), query)

FunctionsInit ==
    /\ selectedFile = << >>
    /\ CanvasInit
    /\ TreeInit
    /\ args \in FunctionArgs
    /\ result = << >>

\* what a call of a pure function leaves alone
CallFrame == UNCHANGED <<args, selectedFile, canvasVars, treeVars>>

CallFindFileByPath ==
    /\ args.fn = "findFileByPath"
    /\ result = << >>
    /\ result' = <<findFileByPath(args.tree, args.path)>>
    /\ CallFrame

CallFilterFileTree ==
    /\ args.fn = "filterFileTree"
    /\ result = << >>
    /\ result' = <<filterFileTree(args.items, args.query)>>
    /\ CallFrame

CallSanitizeName ==
    /\ args.fn = "sanitizeName"
    /\ result = << >>
    /\ result' = <<SafeName(args.name)>>
    /\ CallFrame

FunctionsNext ==
    \/ CallFindFileByPath
    \/ CallFilterFileTree
    \/ CallSanitizeName

\* findFileByPath, filterFileTree and the sanitization of a name, each on
\* every argument within the bounds.
SpecFunctions == FunctionsInit /\ [][FunctionsNext]_vars

(***************************************************************************)
(* Properties of the canvas document lifecycle.                            *)
(***************************************************************************)
\* no storage call and no timer is outstanding
Quiescent == loads = {} /\ saves = {} /\ timers = {}

\* the state a late read resolution must leave alone
documentState == <<initialData, loadError, isLoading, canRender>>

\* a step in which the readCanvas call of l settles (resolves or rejects)
ReadSettled(l) == l \in loads /\ l.pc = "read" /\ l \notin loads'

\* the text a save call carries for the snapshot of change event n
SavedText(n) == <<JSONstringify(CanvasData(Snapshot(n)))>>

\* C1: last selection wins. Once no storage call and no timer is outstanding
\* and a path is selected, the live-path token is the selected path and the
\* document is the result of a read issued for the selected path (the stored
\* document, or the default one when the read failed or did not parse).
C1_LastSelectionWins ==
    (Quiescent /\ selectedFile # << >>) =>
        /\ currentFileRef = SelPath(selectedFile)
        /\ \E k \in DOMAIN calls :
              /\ calls[k].op = "read"
              /\ calls[k].path = SelPath(selectedFile)
              /\ initialData \in {<<StoredDocument(k)>>, <<DEFAULT_CANVAS_DATA>>}

\* C2: a read issued for path A that settles while another path B is selected
\* changes neither the document, the error, the loading flag nor
\* render-eligibility.
C2_StaleReadMutatesNothing ==
    [][\A l \in loads :
          (/\ ReadSettled(l)
           /\ selectedFile # << >>
           /\ l.path # SelPath(selectedFile))
          => UNCHANGED documentState]_vars

\* C3: on a selection change from A to another path B while the last change
\* recorded for A is unsaved, exactly one save call for A is issued, with that
\* snapshot, before the read of B; and no second flush of the same snapshot
\* to the same path is issued while the first has not settled.
C3_SwitchFrom(n) ==
    /\ Len(selections') = nSel + 1
    /\ selectedFile # << >>
    /\ selectedFile' # << >>
    /\ lastDataRef = <<Snapshot(n)>>
    /\ changes[n].path = SelPath(selectedFile)
    /\ ~\E i \in DOMAIN calls :
          /\ calls[i].op = "save"
          /\ calls[i].path = SelPath(selectedFile)
          /\ calls[i].content = SavedText(n)

C3_FlushRepeated ==
    /\ Len(calls') = Len(calls) + 1
    /\ calls'[Len(calls')].by = "flush"
    /\ \E l \in loads :
          /\ l.pc = "flush"
          /\ calls[l.call].path = calls'[Len(calls')].path
          /\ calls[l.call].content = calls'[Len(calls')].content

C3_SaveOnSwitch ==
    [][/\ \A n \in DOMAIN changes :
             C3_SwitchFrom(n) =>
                 calls' = Append(calls, SaveCall(SelPath(selectedFile),
                                                 Snapshot(n), "flush", nSel + 1))
       /\ ~C3_FlushRepeated]_vars

\* C4: no edit is lost. Once nothing is outstanding, every change event
\* recorded for a path has been followed by a save call for that path with
\* its snapshot or a later snapshot of the same path.
C4_NoEditLost ==
    Quiescent =>
        \A n \in DOMAIN changes :
            \E i \in DOMAIN calls : \E m \in n..Len(changes) :
                /\ calls[i].op = "save"
                /\ calls[i].path = changes[n].path
                /\ changes[m].path = changes[n].path
                /\ calls[i].content = SavedText(m)

\* C5: trailing-edge debounce. The callback of the timer of the last change
\* event runs no sooner than 1000ms after that event and then issues exactly
\* one save call, for the selected path, with the data of that event.
C5_TimerRan(t) ==
    /\ t \in timers
    /\ timers' = timers \ {t}
    /\ selections' = selections
    /\ changes' = changes

C5_TrailingDebounce ==
    [][\A t \in timers :
          C5_TimerRan(t) =>
              /\ t.elapsed >= 1000
              /\ lastDataRef = <<t.snapshot>>
              /\ calls' = Append(calls, SaveCall(SelPath(selectedFile),
                                                 t.snapshot, "timer", nSel))]_vars

\* C6: every save call writes to its path a snapshot that a change event
\* recorded while that path was the selected one.
C6_SaveOwnSnapshot ==
    \A i \in DOMAIN calls :
        calls[i].op = "save" =>
            \E n \in DOMAIN changes :
                /\ calls[i].content = SavedText(n)
                /\ changes[n].path = calls[i].path

\* C7: only the read issued by the most recent selection change sets the
\* document state: a read of the selected path issued by an earlier selection
\* of that path is discarded when it settles.
C7_OnlyLatestReadMutates ==
    [][\A l \in loads :
          (/\ ReadSettled(l)
           /\ selectedFile # << >>
           /\ l.path = SelPath(selectedFile)
           /\ l.sel # nSel
           /\ \A j \in l.sel..nSel : selections[j] # NullPath)
          => UNCHANGED documentState]_vars

\* C8: whenever no file is selected the controller is idle: the live-path
\* token, the document and the error are all cleared.
C8_IdleWhenUnselected ==
    selectedFile = << >> =>
        /\ currentFileRef = NullPath
        /\ initialData = << >>
        /\ loadError = << >>

(***************************************************************************)
(* Properties of the file tree.                                            *)
(***************************************************************************)
\* C9: refresh reconciliation. When a listing resolves with forest F', the
\* forest becomes F'; the selection becomes none if it was none or if no node
\* of F' at any depth has the selected path, and otherwise a node of F' with
\* that path, wherever it stands in F'.
C9_RefreshReconciles ==
    [][\A id \in listCalls : \A tree \in Listings :
          ListDirResolve(id, tree) =>
              /\ fileTree' = tree
              /\ IF \/ selectedFile = << >>
                    \/ ~\E node \in NodesOf(tree) : node.path = selectedFile[1].path
                 THEN selectedFile' = << >>
                 ELSE /\ selectedFile' # << >>
                      /\ selectedFile'[1] \in NodesOf(tree)
                      /\ selectedFile'[1].path = selectedFile[1].path]_vars

\* C9 witness: a selection that only reconciliation produces. A refresh has
\* re-resolved the selected path to the node the new forest has at that path;
\* that node is a folder, which handleSelectFile never selects.
C9_Reconciled ==
    /\ selectedFile # << >>
    /\ selectedFile[1].isFolder
    /\ selectedFile[1] \in NodesOf(fileTree)

\* C10: a move never calls renameItem with a target folder that is the source
\* itself or lies inside the source's subtree.
C10_NoMoveIntoOwnSubtree ==
    \A i \in DOMAIN treeCalls :
        treeCalls[i].by = "move" =>
            /\ treeCalls[i].target # treeCalls[i].path
            /\ ~StartsWith(treeCalls[i].target, treeCalls[i].path \o <<"/">>)

\* C12: when the listing of a refresh rejects, the forest and the selection
\* stay exactly as they were, an error string is set and the tree loading
\* flag is cleared; a listing that resolves clears the loading flag as well.
C12_RefreshFailureKeepsForest ==
    [][/\ \A id \in listCalls :
             ListDirReject(id) =>
                 /\ fileTree' = fileTree
                 /\ selectedFile' = selectedFile
                 /\ treeError' # << >>
                 /\ isLoadingTree' = FALSE
       /\ \A id \in listCalls : \A tree \in Listings :
             ListDirResolve(id, tree) => isLoadingTree' = FALSE]_vars

\* C12 witness: a refresh has failed while a forest was shown and a file was
\* selected: the error is set, the loading flag is clear, forest and
\* selection are still there.
C12_FailedRefresh ==
    /\ treeError # << >>
    /\ ~isLoadingTree
    /\ fileTree # << >>
    /\ selectedFile # << >>

(***************************************************************************)
(* Failure handling of the canvas.                                         *)
(***************************************************************************)
\* a step in which the promise of call k rejects
Rejects(k) == k \notin rejected /\ k \in rejected'

\* a step in which handleChange records a change event
ChangeRecorded == Len(changes') = Len(changes) + 1

\* the save call the callback of timer t issues
TimerSave(t) == SaveCall(t.filePath, t.snapshot, "timer", nSel)

\* among the calls of failed, the read that the present selection of path
\* issued: it was rejected, and loadFile applied the rejection
C13_Degraded(path, failed) ==
    \E k \in failed \cap accepted :
        /\ calls[k].op = "read"
        /\ calls[k].path = path
        /\ calls[k].sel = nSel

\* C13: degrade, not block. When the read of the live path B rejects, the
\* document becomes the default one, an error message is set and the
\* controller is Ready (not loading, render-eligible); a change event on B
\* after that arms the debounce timer, and the timer, when it runs, issues a
\* save call for B with the data of that event.
C13_DegradeNotBlock ==
    [][/\ \A l \in loads :
             (ReadSettled(l) /\ Rejects(l.call) /\ currentFileRef = l.path) =>
                 /\ initialData' = <<DEFAULT_CANVAS_DATA>>
                 /\ loadError' # << >>
                 /\ ~isLoading'
                 /\ canRender'
       /\ (C13_Degraded(SelPath(selectedFile), rejected) /\ ChangeRecorded) =>
             \E t \in timers' :
                 /\ t.id = Len(changes')
                 /\ t.filePath = SelPath(selectedFile)
       /\ \A t \in timers :
             (/\ C5_TimerRan(t)
              /\ t.filePath = SelPath(selectedFile)
              /\ C13_Degraded(t.filePath, changes[t.id].after))
             => calls' = Append(calls, TimerSave(t))]_vars

\* C14: when the read of the live path B resolves with a text that does not
\* parse, the document becomes the default one, the controller is Ready, and
\* no error message is shown: the error is none. (Stated for runs in which
\* a file has been selected at every selection change.)
C14_ParseFailureSilent ==
    [][\A l \in loads :
          (/\ ReadResolve(l, NotValidJson)
           /\ currentFileRef = l.path
           /\ \A j \in DOMAIN selections : selections[j] # NullPath) =>
              /\ initialData' = <<DEFAULT_CANVAS_DATA>>
              /\ ~isLoading'
              /\ canRender'
              /\ loadError' = << >>]_vars

\* C15: when the save call of an autosave rejects, the error message, the
\* document and the selection are unchanged and the saving indicator is
\* cleared; a change event after that arms a new timer, and the timer, when
\* it runs, issues a new save call with the latest snapshot.
C15_AutosaveFailed(failed) == \E k \in failed : calls[k].by = "timer"

C15_AutosaveFailureRetried ==
    [][/\ \A k \in saves :
             Rejects(k) =>
                 /\ loadError' = loadError
                 /\ initialData' = initialData
                 /\ selectedFile' = selectedFile
                 /\ isSaving' = FALSE
       /\ (C15_AutosaveFailed(rejected) /\ ChangeRecorded) =>
             \E t \in timers' : t.id = Len(changes')
       /\ \A t \in timers :
             (C5_TimerRan(t) /\ C15_AutosaveFailed(changes[t.id].after)) =>
                 /\ lastDataRef = <<t.snapshot>>
                 /\ calls' = Append(calls, TimerSave(t))]_vars

\* the flush save of the loadFile of the present selection was rejected
C16_FlushFailed ==
    \E k \in rejected : calls[k].by = "flush" /\ calls[k].sel = nSel

\* C16: a failing flush does not block the transition. When the flush save
\* of a switch to B rejects, the live-path token becomes B, the read of B is
\* issued and no error message is set; and once nothing is outstanding the
\* selected file is Ready, with an error message only if a read was rejected.
C16_FailedFlushDoesNotBlock ==
    /\ [][\A l \in loads :
             (l.pc = "flush" /\ Rejects(l.call)) =>
                 /\ currentFileRef' = l.path
                 /\ calls' = Append(calls, ReadCall(l.path, l.sel))
                 /\ loadError' = << >>]_vars
    /\ []((C16_FlushFailed /\ Quiescent /\ selectedFile # << >>) =>
             /\ ~isLoading
             /\ canRender
             /\ loadError # << >> =>
                    \E r \in rejected \cap accepted : calls[r].op = "read")

\* C16 witness: the flush of the switch to the selected file was rejected,
\* everything has settled, and the file is loaded with no error message.
C16_ReadyAfterFailedFlush ==
    /\ C16_FlushFailed
    /\ Quiescent
    /\ selectedFile # << >>
    /\ currentFileRef = SelPath(selectedFile)
    /\ ~isLoading
    /\ canRender
    /\ loadError = << >>

\* C17: a change event that arrives while no file is selected records no
\* snapshot, arms no timer and issues no call; and while no file is selected
\* no timer is pending and no save call is issued.
C17_ChangeIgnoredWhenUnselected ==
    /\ [][/\ (ignoredChanges' # ignoredChanges) =>
                 /\ lastDataRef' = lastDataRef
                 /\ timers' = timers
                 /\ saveTimerRef' = saveTimerRef
                 /\ changes' = changes
                 /\ calls' = calls
          /\ (selectedFile = << >> /\ selectedFile' = << >>) =>
                 \A i \in DOMAIN calls' \ DOMAIN calls : calls'[i].op # "save"]_vars
    /\ [](selectedFile = << >> => timers = {})

\* C17 witness: a change event was delivered with no file selected, after a
\* file with a recorded change had been deselected.
C17_IgnoredChange ==
    /\ ignoredChanges > 0
    /\ selectedFile = << >>
    /\ changes # << >>

(***************************************************************************)
(* Properties of the tree operations of the Sidebar.                       *)
(***************************************************************************)
\* the capabilities that change the stored tree or the trash
MutatingOps ==
    {"createCanvas", "createFolder", "renameItem", "trashItem", "restoreItem",
     "deletePermanently", "emptyTrash", "copyCanvas", "setItemIcon"}

\* a step in which the promise of the storage call of o rejects
OpRejects(o) == o.call \notin treeRejected /\ o.call \in treeRejected'

\* a step in which the promise of the storage call of o resolves
OpResolves(o) == o \notin pendingOps' /\ o.call \notin treeRejected'

\* C11: for every mutating operation, the step that issues the storage call
\* changes neither the expanded-folder set, the selection nor the forest and
\* starts no refresh; and when the call rejects, the three are left as they
\* are, no refresh is started, one alert is raised and the handler returns.
C11_FailedMutationChangesNothing ==
    [][/\ Len(treeCalls') > Len(treeCalls) =>
             /\ treeCalls'[Len(treeCalls')].op \in MutatingOps
             /\ UNCHANGED <<expandedFolders, selectedFile, fileTree, nRefresh,
                            listCalls, alerts>>
       /\ \A o \in pendingOps :
             OpRejects(o) =>
                 /\ UNCHANGED <<expandedFolders, selectedFile, fileTree, nRefresh,
                                listCalls, trashLoads>>
                 /\ alerts' = alerts + 1
                 /\ pendingOps' = pendingOps \ {o}]_vars

\* C11 witness: the creation of a folder has failed while a file was
\* selected: one alert, no refresh after the first, the folder not expanded.
C11_FailedFolderCreation ==
    /\ selectedFile # << >>
    /\ alerts = 1
    /\ nRefresh = 1
    /\ \E k \in treeRejected :
          /\ treeCalls[k].op = "createFolder"
          /\ treeCalls[k].path \notin expandedFolders

\* C18: a rename whose new name, trimmed, is empty or is the display name of
\* the node calls no capability and starts no refresh, from the inline edit
\* and from the rename dialog alike.
C18_RenameSameNameIsNoOp ==
    [][\A item \in NodesOf(fileTree) : \A value \in EditedNames(item) :
          (/\ Trim(value) \in {<< >>, DisplayName(item.name)}
           /\ InlineEdit(item, value) \/ RenameDialog(item, value))
          => UNCHANGED <<treeCalls, pendingOps, nRefresh>>]_vars

\* C19: when a rename resolves, from either entry point: if the old path is
\* a folder of the forest and is in the expanded-folder set, the set loses
\* the old path and gains the new one; otherwise the set is unchanged.
C19_RenameMovesExpansion ==
    [][\A o \in pendingOps :
          (o.kind \in {"inlineRename", "renameDialog"} /\ OpResolves(o)) =>
              LET old == treeCalls[o.call].path
                  new == treeCalls[o.call].newPath
              IN  IF /\ old \in expandedFolders
                     /\ \E node \in NodesOf(fileTree) :
                           node.path = old /\ node.isFolder
                  THEN expandedFolders' = (expandedFolders \ {old}) \cup {new}
                  ELSE expandedFolders' = expandedFolders]_vars

\* C20: whenever a node may be dropped on a folder that is neither the node
\* itself nor inside its subtree, the drop calls renameItem once with the
\* source and targetFolderPath + "/" + baseName(sourcePath), unless that
\* destination is the source, and then it calls nothing.
C20_AllowedMoveIsCarriedOut ==
    \A item \in NodesOf(fileTree) : \A source \in NodesOf(fileTree) :
        LET sourcePath == source.path
            baseName == SubSeq(sourcePath, LastIndexOfSlash(sourcePath) + 1,
                               Len(sourcePath))
            destination == item.path \o <<"/">> \o baseName
        IN  (/\ MayStartOp
             /\ item.isFolder
             /\ item.path # sourcePath
             /\ ~StartsWith(item.path, sourcePath \o <<"/">>))
            => IF destination = sourcePath
               THEN ~ENABLED (HandleDrop(item, sourcePath) /\ treeCalls' # treeCalls)
               ELSE ENABLED (/\ HandleDrop(item, sourcePath)
                             /\ treeCalls' = Append(treeCalls,
                                    RenameCall(sourcePath, destination, "move",
                                               item.path)))

\* the k-th candidate of a copy of the canvas displayed as base under target
C21_Candidate(base, target, k) ==
    JoinPath(target,
             base \o CopySuffix
                  \o (IF k = 1 THEN << >> ELSE <<" ">> \o DecimalString(k))
                  \o CanvasSuffix)

\* path is the path of a node of the forest
C21_Present(path) == \E node \in NodesOf(fileTree) : node.path = path

\* C21: whenever a paste calls copyCanvas, its destination is the first of
\* the candidates "{base} copy", "{base} copy 2", ... under the target folder
\* (the selected folder, the folder of the selected canvas, or the root) that
\* is the path of no node of the current forest.
C21_CopyPathIsFresh ==
    [][(Len(treeCalls') > Len(treeCalls)
          /\ treeCalls'[Len(treeCalls')].op = "copyCanvas")
       => LET dest == treeCalls'[Len(treeCalls')].newPath
              base == DisplayName(copiedFile[1].name)
              target == IF selectedFile = << >> THEN << >>
                        ELSE IF selectedFile[1].isFolder THEN selectedFile[1].path
                        ELSE ParentPath(selectedFile[1].path)
          IN  /\ ~C21_Present(dest)
              /\ \E k \in 1..(Cardinality(NodesOf(fileTree)) + 1) :
                    /\ dest = C21_Candidate(base, target, k)
                    /\ \A j \in 1..(k - 1) :
                          C21_Present(C21_Candidate(base, target, j))]_vars

\* the parentPath a create dialog may have been opened with
C22_ParentPaths == {<< >>} \cup {MenuParentPath(item) : item \in NodesOf(fileTree)}

\* C22: submitting the new-canvas or the new-folder dialog with a name that
\* is empty after trimming calls no storage capability and starts no refresh.
C22_BlankNameCreatesNothing ==
    [][\A parentPath \in C22_ParentPaths : \A value \in TypedNames :
          (/\ Trim(value) = << >>
           /\ NewCanvasDialog(parentPath, value) \/ NewFolderDialog(parentPath, value))
          => UNCHANGED <<treeCalls, pendingOps, nRefresh, listCalls>>]_vars

\* C22 witness: a create dialog opened on a folder can be submitted with a
\* blank name, in a state where a name would create the folder.
C22_BlankNameSubmitted ==
    \E item \in NodesOf(fileTree) :
        /\ item.isFolder
        /\ ENABLED NewFolderDialog(item.path, <<" ">>)
        /\ ENABLED (NewFolderDialog(item.path, <<"n">>) /\ treeCalls' # treeCalls)

\* the path a create capability is to be called with, for what was typed
C23_FullPath(parentPath, value, isCanvas) ==
    LET sanitized == [i \in DOMAIN Trim(value) |->
                         IF Trim(value)[i] \in UnsafeChars THEN "-" ELSE Trim(value)[i]]
        name == IF isCanvas /\ ~EndsWith(sanitized, CanvasSuffix)
                THEN sanitized \o CanvasSuffix ELSE sanitized
    IN  IF parentPath # << >> THEN parentPath \o <<"/">> \o name ELSE name

\* C23: a create dialog that calls its capability calls it with parentPath +
\* "/" + name (name alone at the root), name being the trimmed input with
\* the unsafe characters replaced and, for a canvas only, with the canvas
\* suffix appended when it does not end with it.
C23_CreatePath ==
    [][\A parentPath \in C22_ParentPaths : \A value \in TypedNames :
          /\ (NewCanvasDialog(parentPath, value) /\ treeCalls' # treeCalls)
             => /\ Len(treeCalls') = Len(treeCalls) + 1
                /\ treeCalls'[Len(treeCalls')].op = "createCanvas"
                /\ treeCalls'[Len(treeCalls')].path = C23_FullPath(parentPath, value, TRUE)
          /\ (NewFolderDialog(parentPath, value) /\ treeCalls' # treeCalls)
             => /\ Len(treeCalls') = Len(treeCalls) + 1
                /\ treeCalls'[Len(treeCalls')].op = "createFolder"
                /\ treeCalls'[Len(treeCalls')].path = C23_FullPath(parentPath, value, FALSE)]_vars

\* C23 witness: a canvas was created under folder d from a name that already
\* had the suffix.
C23_CreatedUnderFolder ==
    \E i \in DOMAIN treeCalls :
        /\ treeCalls[i].op = "createCanvas"
        /\ treeCalls[i].path = PathD \o <<"/", "n">> \o CanvasSuffix

\* C24: the expanded-folder set is empty at the start, and a toggle of the
\* folder at path p flips the membership of p (adds it if absent, removes it
\* if present) and of no other path, so that a second toggle of p restores
\* the set.
C24_ToggleIsSymmetric ==
    /\ expandedFolders = {}
    /\ [][\A item \in NodesOf(fileTree) :
             (item.isFolder /\ HandleToggleFolder(item.path)) =>
                 /\ item.path \in expandedFolders' <=> item.path \notin expandedFolders
                 /\ \A q \in (expandedFolders \cup expandedFolders') \ {item.path} :
                       q \in expandedFolders' <=> q \in expandedFolders]_vars

\* C24 witness: d was expanded, then d/e, and d is still expanded.
C24_TwoExpanded ==
    /\ fileTree = Listing1
    /\ expandedFolders = {PathD, PathDE}

\* C25: a select request for a folder leaves the selection as it is, and a
\* select request for any other node makes that node the selection.
C25_SelectOnlyFiles ==
    [][\A item \in NodesOf(fileTree) :
          HandleSelectFile(item) =>
              IF item.isFolder
              THEN selectedFile' = selectedFile
              ELSE selectedFile' = <<item>>]_vars

\* C25 witness: canvas d/b.excalidraw is selected in a tree that has folders.
C25_FileSelected ==
    /\ selectedFile # << >>
    /\ selectedFile[1].path = PathDB
    /\ ~selectedFile[1].isFolder
    /\ \E item \in NodesOf(fileTree) : item.isFolder

(***************************************************************************)
(* Properties of the pure functions.                                       *)
(***************************************************************************)
\* the nodes of a forest in depth-first order, a parent before its children
\* and siblings in their order, through the folders whose children are present
RECURSIVE C26_DepthFirst(_)
C26_DepthFirst(tree) ==
    IF tree = << >>
    THEN << >>
    ELSE <<tree[1]>>
         \o (IF tree[1].isFolder /\ tree[1].hasChildren
             THEN C26_DepthFirst(tree[1].children) ELSE << >>)
         \o C26_DepthFirst(Tail(tree))

\* C26: findFileByPath(F, p) returns the first node with path p in the
\* depth-first order of F, and null when that order has no such node (so for
\* the empty path too, no node having it).
C26_FindFirstDepthFirst ==
    (args.fn = "findFileByPath" /\ result # << >>) =>
        LET order == C26_DepthFirst(args.tree)
            hits == {i \in DOMAIN order : order[i].path = args.path}
        IN  IF hits = {}
            THEN result[1] = << >>
            ELSE result[1] = <<order[CHOOSE i \in hits : \A j \in hits : i <= j]>>

\* C26 witness: the node returned is inside a folder, and a later sibling of
\* that folder has the same path.
C26_FoundNestedBeforeSibling ==
    /\ args.fn = "findFileByPath"
    /\ result # << >>
    /\ Len(args.tree) = 2
    /\ args.tree[1].isFolder
    /\ args.tree[1].path # args.path
    /\ args.tree[2].path = args.path
    /\ result[1] # << >>
    /\ result[1][1] # args.tree[2]

\* the display name of item contains query, the case of letters set aside
C27_Matches(item, query) ==
    LET shown == DisplayName(item.name)
    IN  \E i \in 1..(Len(shown) - Len(query) + 1) :
            \A k \in DOMAIN query : LowerChar(shown[i + k - 1]) = LowerChar(query[k])

\* C27: filterFileTree(F, "") is F. For another query the result is, in the
\* order of F, the nodes of F that are kept: a non-folder is kept iff its
\* display name matches, and unchanged; a folder that matches is kept with
\* all its children, unfiltered; a folder that does not match is kept iff
\* the filter of its children is not empty, and with just those.
C27_FilterKeepsMatches ==
    (args.fn = "filterFileTree" /\ result # << >>) =>
        IF args.query = << >>
        THEN result[1] = args.items
        ELSE LET Below(item) == filterFileTree(ChildrenOrEmpty(item), args.query)
                 Keep(item) == \/ C27_Matches(item, args.query)
                               \/ item.isFolder /\ Below(item) # << >>
                 kept == SelectSeq(args.items, Keep)
             IN  /\ Len(result[1]) = Len(kept)
                 /\ \A i \in DOMAIN kept :
                       IF ~kept[i].isFolder
                       THEN result[1][i] = kept[i]
                       ELSE /\ result[1][i].isFolder
                            /\ result[1][i].name = kept[i].name
                            /\ result[1][i].path = kept[i].path
                            /\ result[1][i].children =
                                   IF C27_Matches(kept[i], args.query)
                                   THEN ChildrenOrEmpty(kept[i])
                                   ELSE Below(kept[i])

\* C27 witness: for the query "a", folder B, which does not match, is kept
\* with the one of its two children that matches, canvas "A".
C27_FolderKeptForChild ==
    /\ args.fn = "filterFileTree"
    /\ result # << >>
    /\ args.query = <<"a">>
    /\ Len(args.items) = 2
    /\ args.items[2].name = <<"B">>
    /\ Len(args.items[2].children) = 2
    /\ Len(result[1]) = 1
    /\ result[1][1].name = <<"B">>
    /\ Len(result[1][1].children) = 1
    /\ result[1][1].children[1].name = <<"A">> \o CanvasSuffix

\* the characters / \ ? % * : | " < >
C28_Replaced == {"/", "\\", "?", "%", "*", ":", "|", "\"", "<", ">"}

\* C28: for every name of at most MaxNameLen characters, the sanitization
\* of the name replaces each of the characters / \ ? % *
\* : | " < > by "-" and keeps every other character, so that the result has
\* the length of the name and none of those characters, and is its own
\* sanitization; and every path a create or a rename handler passes to its
\* capability ends with the sanitization of the trimmed name that was typed.
C28_SanitizeName ==
    /\ \A name \in Names :
          /\ Len(SafeName(name)) = Len(name)
          /\ \A i \in DOMAIN name :
                SafeName(name)[i] = IF name[i] \in C28_Replaced THEN "-" ELSE name[i]
          /\ \A i \in DOMAIN name : SafeName(name)[i] \notin C28_Replaced
          /\ SafeName(SafeName(name)) = SafeName(name)
    /\ [][/\ \A parentPath \in C22_ParentPaths : \A value \in TypedNames :
               /\ (NewCanvasDialog(parentPath, value) /\ treeCalls' # treeCalls)
                  => treeCalls'[Len(treeCalls')].path
                        = C23_FullPath(parentPath, value, TRUE)
               /\ (NewFolderDialog(parentPath, value) /\ treeCalls' # treeCalls)
                  => treeCalls'[Len(treeCalls')].path
                        = C23_FullPath(parentPath, value, FALSE)
          /\ \A item \in NodesOf(fileTree) : \A value \in EditedNames(item) :
               ((InlineEdit(item, value) \/ RenameDialog(item, value))
                   /\ treeCalls' # treeCalls)
               => treeCalls'[Len(treeCalls')].newPath
                     = C23_FullPath(ParentPath(item.path), value, ~item.isFolder)]_vars

\* C28 witness: a rename to "n?:" has called renameItem with the name "n--".
C28_RenamedSanitized ==
    \E i \in DOMAIN treeCalls :
        /\ treeCalls[i].op = "renameItem"
        /\ treeCalls[i].by \in {"inlineRename", "renameDialog"}
        /\ treeCalls[i].newPath = PathD \o <<"/", "n", "-", "-">>

(***************************************************************************)
(* Properties of the saves of the canvas.                                  *)
(***************************************************************************)
\* the saveCanvas calls that have not settled: those of timer callbacks and
\* those of forceSave
SavesInFlight == saves \cup {l.call : l \in {m \in loads : m.pc = "flush"}}

\* C29: a save call for a path is issued, by a timer callback or by the
\* flush of a switch, only when no earlier save call for that path is still
\* in flight.
C29_OneSaveInFlight ==
    [][(Len(calls') > Len(calls) /\ calls'[Len(calls')].op = "save")
       => \A k \in SavesInFlight : calls[k].path # calls'[Len(calls')].path]_vars

\* C30: the saving indicator is set exactly in the states in which a save
\* call is in flight.
C30_IndicatorTracksSaves == isSaving <=> SavesInFlight # {}

(***************************************************************************)
(* Properties of the debounce timer and of overlapping refreshes.          *)
(***************************************************************************)
\* C31: every selection change cancels the pending timer; a pending timer is
\* the one of a change recorded for the selected path; and a timer callback
\* that runs issues a save call only if the live-path token is the path its
\* change was recorded for, and then for the path selected in that state,
\* with the data of that change.
C31_TimerDiesWithSelection ==
    /\ [][/\ selections' # selections => timers' = {}
          /\ \A t \in timers :
                C5_TimerRan(t) =>
                    IF currentFileRef = changes[t.id].path
                    THEN /\ changes[t.id].path = SelPath(selectedFile)
                         /\ calls' = Append(calls,
                                SaveCall(SelPath(selectedFile), Snapshot(t.id),
                                         "timer", nSel))
                    ELSE calls' = calls]_vars
    /\ [](\A t \in timers :
             /\ t.id = saveTimerRef
             /\ t.filePath = SelPath(selectedFile)
             /\ changes[t.id].path = t.filePath)

\* C31 witness: the timer of the first change on canvas a has run and saved;
\* the timer of the second was pending when b was selected, and it is gone
\* without a save.
C31_TimerCancelledBySwitch ==
    /\ selections = <<CanvasA.path, CanvasB.path>>
    /\ Len(changes) = 2
    /\ timers = {}
    /\ \E i \in DOMAIN calls : calls[i].by = "timer" /\ calls[i].content = SavedText(1)
    /\ \A i \in DOMAIN calls : calls[i].by = "timer" => calls[i].content # SavedText(2)

\* the selection a refresh that resolves with tree leaves: none if there was
\* none, else what the search of tree for the selected path returns
C32_Reconciled(tree) ==
    IF selectedFile = << >> THEN << >> ELSE findFileByPath(tree, selectedFile[1].path)

\* C32: whichever of the pending refreshes resolves, be it the last one
\* issued or an earlier one, its listing becomes the forest and the selection
\* is reconciled against it; a refresh that rejects changes neither; and the
\* forest changes in no other step. So once all have settled the forest is
\* that of the refresh that resolved last, whatever the order of issue.
C32_LastResolutionWins ==
    [][/\ \A id \in listCalls : \A tree \in Listings :
             ListDirResolve(id, tree) =>
                 /\ fileTree' = tree
                 /\ selectedFile' = C32_Reconciled(tree)
       /\ \A id \in listCalls :
             ListDirReject(id) => UNCHANGED <<fileTree, selectedFile>>
       /\ fileTree' # fileTree =>
             \E id \in listCalls : listCalls' = listCalls \ {id}]_vars

\* C32 witness: the second refresh has resolved and canvas d/b.excalidraw was
\* selected in its forest, while the first refresh is still pending; the
\* first may now resolve with a listing without that canvas, which replaces
\* the forest and drops the selection.
C32_OlderRefreshOverwrites ==
    /\ nRefresh >= 2
    /\ listCalls = {1}
    /\ fileTree = Listing1
    /\ selectedFile = <<File(PathDB, NameB)>>
    /\ ENABLED (/\ ListDirResolve(1, Listing3)
                /\ fileTree' = Listing3
                /\ selectedFile' = << >>)

(***************************************************************************)
(* Termination of loading.                                                 *)
(***************************************************************************)
\* the canvas shows the drawing surface: not loading, and render-eligible
Ready == ~isLoading /\ canRender

\* C33: when every read and save call settles in the end, a file that is
\* selected becomes Ready unless the selection changes again, whatever its
\* read does and whatever was in flight when it was selected.
C33_LoadingEnds ==
    \A n \in 1..MaxSelections :
        (nSel = n /\ selectedFile # << >>) ~> (nSel # n \/ Ready)

\* C33 witness: b was selected while the flush of a switch to a was pending;
\* both flushes have settled, the read of b was rejected, and b is Ready.
C33_ReadyAfterRejectedRead ==
    /\ Len(selections) = 3
    /\ selections[3] = CanvasB.path
    /\ loads = {}
    /\ Cardinality({i \in DOMAIN calls : calls[i].by = "flush" /\ calls[i].sel >= 2}) = 2
    /\ \E k \in rejected \cap accepted :
          calls[k].op = "read" /\ calls[k].path = CanvasB.path /\ calls[k].sel = 3
    /\ Ready

(***************************************************************************)
(* What follows a storage call of the Sidebar.                             *)
(***************************************************************************)
\* the capabilities whose success is followed by a refresh of the forest
C34_RefreshingOps ==
    {"createCanvas", "createFolder", "renameItem", "copyCanvas", "setItemIcon",
     "trashItem", "restoreItem"}

\* the capabilities whose success is followed by a reload of the trash listing
C34_TrashReloadingOps ==
    {"trashItem", "restoreItem", "deletePermanently", "emptyTrash"}

\* C34: mutate, then refresh. In the step in which the call of a create,
\* rename, move, copy, set-icon, trash or restore resolves a refresh of the
\* forest is started, and in the step in which the call of a trash, restore,
\* delete-permanently or empty-trash resolves a reload of the trash listing
\* is started; the step that issues the call and the step in which it rejects
\* start neither.
C34_MutateThenRefresh ==
    [][/\ \A o \in pendingOps :
             OpResolves(o) =>
                 /\ treeCalls[o.call].op \in C34_RefreshingOps =>
                        /\ nRefresh' = nRefresh + 1
                        /\ listCalls' = listCalls \cup {nRefresh'}
                        /\ isLoadingTree'
                 /\ treeCalls[o.call].op \in C34_TrashReloadingOps =>
                        trashLoads' = trashLoads + 1
       /\ \A o \in pendingOps :
             OpRejects(o) => UNCHANGED <<nRefresh, listCalls, trashLoads>>
       /\ Len(treeCalls') > Len(treeCalls) =>
             UNCHANGED <<nRefresh, listCalls, trashLoads>>]_vars

\* C34 witness: the restore of a trashed item has resolved; the refresh it
\* started and the reload of the trash listing are both pending.
C34_RestoredThenRefreshed ==
    /\ Len(treeCalls) = 1
    /\ treeCalls[1].op = "restoreItem"
    /\ pendingOps = {}
    /\ treeRejected = {}
    /\ nRefresh = 2
    /\ 2 \in listCalls
    /\ trashLoads = 1

\* C35: when the call of a folder creation resolves, the expanded-folder set
\* gains the path of the new folder; when that of a move resolves, the path
\* of the target folder; when that of a copy into a folder other than the
\* root resolves, the path of that folder; the set gains and loses nothing
\* else; and when the call of a canvas creation resolves the set stays as
\* it is.
C35_ExpansionAfterMutation ==
    [][\A o \in pendingOps :
          OpResolves(o) =>
              LET call == treeCalls[o.call]
                  folder == ParentPath(call.newPath)
              IN  /\ call.op = "createFolder" =>
                         expandedFolders' = expandedFolders \cup {call.path}
                  /\ call.by = "move" =>
                         expandedFolders' = expandedFolders \cup {call.target}
                  /\ (call.op = "copyCanvas" /\ folder # << >>) =>
                         expandedFolders' = expandedFolders \cup {folder}
                  /\ call.op = "createCanvas" =>
                         expandedFolders' = expandedFolders]_vars

\* C35 witness: with d/e expanded, a copy of canvas d/b.excalidraw into
\* folder d has resolved: d is expanded now, and d/e still is.
C35_CopyExpandedFolder ==
    /\ Len(treeCalls) = 1
    /\ treeCalls[1].op = "copyCanvas"
    /\ ParentPath(treeCalls[1].newPath) = PathD
    /\ pendingOps = {}
    /\ treeRejected = {}
    /\ expandedFolders = {PathD, PathDE}

(***************************************************************************)
(* Saves and the selection.                                                *)
(***************************************************************************)
\* a step that issues a save call
C36_SaveIssued ==
    Len(calls') > Len(calls) /\ calls'[Len(calls')].op = "save"

\* the selection went from path to none, and path was not selected again
C36_Deselected(path) ==
    \E j \in 2..nSel :
        /\ selections[j - 1] = path
        /\ selections[j] = NullPath
        /\ \A m \in j..nSel : selections[m] # path

\* C36: a save call for a path is issued only in a state in which that path
\* is the selected one (by its timer, or by the selection change that leaves
\* it); so after the selection has gone from a path to none, no later
\* selection change issues a save call for that path.
C36_NoSaveAfterDeselect ==
    [][C36_SaveIssued =>
          /\ calls'[Len(calls')].path = SelPath(selectedFile)
          /\ ~C36_Deselected(calls'[Len(calls')].path)]_vars

(***************************************************************************)
(* Refreshes, the selection and the expanded folders.                      *)
(***************************************************************************)
\* C37: in every reachable state the selected node is none or a node that
\* is not a folder.
C37_SelectionNeverFolder ==
    selectedFile = << >> \/ ~selectedFile[1].isFolder

\* C38: a step in which a refresh is started by the refresh button, or in
\* which the listing of a refresh resolves or rejects, leaves the
\* expanded-folder set as it is; the set changes only in a toggle of a folder
\* and in the step in which the call of a folder creation, a rename, a move
\* or a copy resolves.
C38_RefreshKeepsExpansion ==
    [][/\ (listCalls' # listCalls /\ pendingOps' = pendingOps) =>
             expandedFolders' = expandedFolders
       /\ expandedFolders' # expandedFolders =>
             \/ \E item \in NodesOf(fileTree) :
                   item.isFolder /\ HandleToggleFolder(item.path)
             \/ \E o \in pendingOps :
                   /\ OpResolves(o)
                   /\ treeCalls[o.call].op \in {"createFolder", "renameItem", "copyCanvas"}]_vars

\* C38 witness: folder d/e was expanded; a refresh has resolved with a
\* forest that has no node at d/e, and d/e is still in the set.
C38_RemovedFolderStillExpanded ==
    /\ PathDE \in expandedFolders
    /\ listCalls = {}
    /\ fileTree = Listing4
    /\ ~\E node \in NodesOf(fileTree) : node.path = PathDE

====
